---- MODULE Spec2Model ----
(***************************************************************************)
(* pngsecret: the chunk codec (src/chunk_type.rs, src/chunk.rs).           *)
(*                                                                         *)
(* A byte is a number in 0..255, a byte buffer a sequence of bytes, a text *)
(* (Rust str / String) a sequence of Unicode code points.  Option<T> is a  *)
(* sequence of length 0 (None) or 1 (Some).                                *)
(***************************************************************************)
EXTENDS Integers, Sequences, FiniteSets, TLC

(***************************************************************************)
(* Bounds of the model.                                                    *)
(***************************************************************************)
\* longest payload the caller builds from PayloadBytes
MaxLen == 2
\* longest run of bytes the caller appends after a serialized record
MaxTrail == 2
\* longest text (in characters) handed to ChunkType::from_str
MaxStr == 5

(***************************************************************************)
(* Inputs.                                                                 *)
(***************************************************************************)
\* 'R' (uppercase), 'u' (lowercase), 0xAD (not ASCII; the bitwise NOT of 'R')
TagBytes == {82, 117, 173}
\* 'R', and the two bytes of the UTF-8 encoding of U+00E9
PayloadBytes == {82, 195, 169}
\* 'R', 'u', '1', U+00E9
StrChars == {82, 117, 49, 233}
\* values the caller overwrites a byte of a buffer with, or appends to it
EditBytes == {0, 82, 173}

\* "RuSt", chunk.rs:122,140 and chunk_type.rs:146
RuSt == <<82, 117, 83, 116>>
\* "This is where your secret message will be!", chunk.rs:123,141
Message ==
  <<84, 104, 105, 115, 32, 105, 115, 32, 119, 104, 101, 114, 101, 32, 121,
    111, 117, 114, 32, 115, 101, 99, 114, 101, 116, 32, 109, 101, 115, 115,
    97, 103, 101, 32, 119, 105, 108, 108, 32, 98, 101, 33>>

SeqsUpTo(S, n) == UNION {[1..k -> S] : k \in 0..n}

Tags == [1..4 -> TagBytes] \cup {RuSt}
Payloads == SeqsUpTo(PayloadBytes, MaxLen) \cup {Message}
Strings == SeqsUpTo(StrChars, MaxStr) \cup {RuSt}
Trails == SeqsUpTo(EditBytes, MaxTrail) \ {<<>>}

None == <<>>
Some(x) == <<x>>

(***************************************************************************)
(* Integer helpers of the standard library.                                *)
(***************************************************************************)
\* TLC's integers are 32-bit signed, so a u32 is held as two 16-bit limbs
\* <<hi, lo>>, standing for hi * 65536 + lo.
\* `n as u32` for a usize n (in the model a usize is below 2^31)
as_u32(n) == <<(n \div 65536) % 65536, n % 65536>>

\* whether the u32 x, taken `as usize`, is at most the usize k
u32_fits(x, k) == x[1] < 32768 /\ x[1] * 65536 + x[2] <= k

\* `x as usize` for a u32 x that fits the model's usize
as_usize(x) == x[1] * 65536 + x[2]

\* ^ on bytes, bit by bit
RECURSIVE XorBits(_, _)
XorBits(a, b) ==
  IF a = 0 THEN b
  ELSE IF b = 0 THEN a
  ELSE (((a % 2) + (b % 2)) % 2) + 2 * XorBits(a \div 2, b \div 2)

XorTable == [a \in 0..255 |-> [b \in 0..255 |-> XorBits(a, b)]]

\* ^ on bytes and on 16-bit limbs
Xor(a, b) == XorTable[a][b]
Xor16(a, b) ==
  Xor(a \div 256, b \div 256) * 256 + Xor(a % 256, b % 256)

\* ^, >> 1, >> 8 and & 0xff on a u32
u32_xor(x, y) == <<Xor16(x[1], y[1]), Xor16(x[2], y[2])>>
u32_shr1(x) == <<x[1] \div 2, (x[1] % 2) * 32768 + (x[2] \div 2)>>
u32_shr8(x) == <<x[1] \div 256, (x[1] % 256) * 256 + (x[2] \div 256)>>
u32_low8(x) == x[2] % 256

\* u32::to_be_bytes
to_be_bytes(x) == <<x[1] \div 256, x[1] % 256, x[2] \div 256, x[2] % 256>>

\* u32::from_be_bytes
from_be_bytes(b) == <<b[1] * 256 + b[2], b[3] * 256 + b[4]>>

\* u8::is_ascii_uppercase, is_ascii_lowercase, is_ascii_alphabetic
is_ascii_uppercase(b) == b >= 65 /\ b <= 90
is_ascii_lowercase(b) == b >= 97 /\ b <= 122
is_ascii_alphabetic(b) == is_ascii_uppercase(b) \/ is_ascii_lowercase(b)

\* `!` on a u8: bitwise NOT
not_u8(b) == 255 - b

(***************************************************************************)
(* UTF-8: str::len / str::as_bytes (encoding) and String::from_utf8        *)
(* (validation and decoding).                                              *)
(***************************************************************************)
Utf8Char(c) ==
  IF c < 128 THEN <<c>>
  ELSE IF c < 2048 THEN <<192 + (c \div 64), 128 + (c % 64)>>
  ELSE IF c < 65536
    THEN <<224 + (c \div 4096), 128 + ((c \div 64) % 64), 128 + (c % 64)>>
  ELSE <<240 + (c \div 262144), 128 + ((c \div 4096) % 64),
         128 + ((c \div 64) % 64), 128 + (c % 64)>>

RECURSIVE str_as_bytes(_)
str_as_bytes(s) ==
  IF s = <<>> THEN <<>> ELSE Utf8Char(Head(s)) \o str_as_bytes(Tail(s))

str_len(s) == Len(str_as_bytes(s))

str_is_ascii(s) == \A i \in 1..Len(s) : s[i] < 128

IsCont(b) == b >= 128 /\ b <= 191

\* String::from_utf8: [ok, text]; ok is FALSE on the first ill-formed sequence
RECURSIVE from_utf8(_)
from_utf8(v) ==
  IF v = <<>> THEN [ok |-> TRUE, text |-> <<>>]
  ELSE
    LET b1 == v[1]
        n == IF b1 < 128 THEN 1
             ELSE IF b1 >= 194 /\ b1 <= 223 THEN 2
             ELSE IF b1 >= 224 /\ b1 <= 239 THEN 3
             ELSE IF b1 >= 240 /\ b1 <= 244 THEN 4
             ELSE 0
        wellFormed ==
          /\ n > 0
          /\ Len(v) >= n
          /\ \A i \in 2..n : IsCont(v[i])
          /\ (b1 = 224 => v[2] >= 160)
          /\ (b1 = 237 => v[2] <= 159)
          /\ (b1 = 240 => v[2] >= 144)
          /\ (b1 = 244 => v[2] <= 143)
    IN IF ~wellFormed THEN [ok |-> FALSE, text |-> <<>>]
       ELSE
         LET c == IF n = 1 THEN b1
                  ELSE IF n = 2 THEN (b1 - 192) * 64 + (v[2] - 128)
                  ELSE IF n = 3
                    THEN ((b1 - 224) * 64 + (v[2] - 128)) * 64 + (v[3] - 128)
                  ELSE (((b1 - 240) * 64 + (v[2] - 128)) * 64 + (v[3] - 128)) * 64
                       + (v[4] - 128)
             rest == from_utf8(SubSeq(v, n + 1, Len(v)))
         IN IF rest.ok THEN [ok |-> TRUE, text |-> <<c>> \o rest.text]
            ELSE rest

(***************************************************************************)
(* chunk_type.rs                                                           *)
(***************************************************************************)
\* ChunkType::new: unconditional construction from four raw bytes
ChunkType_new(ancilliary, private, reserved, safe_to_copy) ==
  [ancilliary |-> ancilliary, private |-> private,
   reserved |-> reserved, safe_to_copy |-> safe_to_copy]

\* ChunkType::bytes
bytes(self) ==
  <<self.ancilliary, self.private, self.reserved, self.safe_to_copy>>

is_critical(self) == is_ascii_uppercase(self.ancilliary)
is_public(self) == is_ascii_uppercase(self.private)
is_reserved_bit_valid(self) == is_ascii_uppercase(self.reserved)
is_safe_to_copy(self) == is_ascii_lowercase(self.safe_to_copy)

\* ChunkType::is_valid
is_valid(self) ==
  IF ~(\A i \in 1..4 : is_ascii_alphabetic(bytes(self)[i])) THEN FALSE
  ELSE IF is_ascii_lowercase(self.reserved) THEN FALSE
  ELSE TRUE

\* Display for ChunkType: every byte `as char`
ChunkType_to_string(self) == [i \in 1..4 |-> bytes(self)[i]]

\* PartialEq for ChunkType: `!self.bytes()[i] == other.bytes()[i]` is
\* (!a) == b, the bitwise NOT of the left byte compared with the right byte
ChunkType_eq(self, other) ==
  IF Len(bytes(self)) = Len(bytes(other))
    THEN IF \E i \in 1..Len(bytes(self)) :
              not_u8(bytes(self)[i]) = bytes(other)[i]
           THEN FALSE
           ELSE TRUE
    ELSE TRUE

Ok(x) == [ok |-> TRUE, val |-> Some(x), err |-> ""]
Err(e) == [ok |-> FALSE, val |-> None, err |-> e]

\* a slip that checks the first byte's case instead of the third's
ChunkType_try_from_first(value) ==
  IF ~(\A i \in 1..4 : is_ascii_alphabetic(value[i]))
    THEN Err("All bytes of chunk should be a valid ascii")
  ELSE IF is_ascii_lowercase(value[1])
    THEN Err("Byte 3 must be lowercase")
  ELSE Ok(ChunkType_new(value[1], value[2], value[3], value[4]))

\* a slip that drops the reserved-bit branch
ChunkType_try_from_no_reserved(value) ==
  IF ~(\A i \in 1..4 : is_ascii_alphabetic(value[i]))
    THEN Err("All bytes of chunk should be a valid ascii")
  ELSE Ok(ChunkType_new(value[1], value[2], value[3], value[4]))

\* TryFrom<[u8; 4]> for ChunkType
ChunkType_try_from(value) ==
  IF ~(\A i \in 1..4 : is_ascii_alphabetic(value[i]))
    THEN Err("All bytes of chunk should be a valid ascii")
  ELSE IF is_ascii_lowercase(value[3])
    THEN Err("Byte 3 must be lowercase")
  ELSE Ok(ChunkType_new(value[1], value[2], value[3], value[4]))

\* FromStr for ChunkType; s is a text, s.len() its length in bytes
ChunkType_from_str(s) ==
  IF str_len(s) # 4 THEN Err("String should be exactly 4 lenght")
  ELSE IF ~str_is_ascii(s) THEN Err("String should contain ascii chars only")
  ELSE
    LET b == str_as_bytes(s)
    IN IF \E i \in 1..Len(b) : ~is_ascii_alphabetic(b[i])
         THEN Err("String should contain letters only")
         ELSE Ok(ChunkType_new(b[1], b[2], b[3], b[4]))

(***************************************************************************)
(* CRC-32/ISO-HDLC (crc::CRC_32_ISO_HDLC): reflected polynomial            *)
(* 0xEDB88320, initial value 0xFFFFFFFF, final XOR 0xFFFFFFFF.             *)
(***************************************************************************)
\* 0xEDB88320, 0xFFFFFFFF, 0xFFFFFFFF
POLY == <<60856, 33568>>
CRC_INIT == <<65535, 65535>>
CRC_XOROUT == <<65535, 65535>>

CrcStep(c) == IF c[2] % 2 = 1 THEN u32_xor(POLY, u32_shr1(c)) ELSE u32_shr1(c)

CrcTable ==
  [n \in 0..255 |->
     CrcStep(CrcStep(CrcStep(CrcStep(CrcStep(CrcStep(CrcStep(CrcStep(
       <<0, n>>))))))))]

\* one byte of the table-driven update: table[(c ^ b) & 0xff] ^ (c >> 8)
CrcByte(c, b) == u32_xor(CrcTable[Xor(u32_low8(c), b)], u32_shr8(c))

\* the update over buf[lo..hi], left to right.  The range is split in halves
\* and the left half's value is looked at before the right half is entered,
\* which keeps TLC's evaluation shallow; the value is that of the byte loop.
RECURSIVE crc_update(_, _, _, _)
crc_update(c, buf, lo, hi) ==
  IF lo > hi THEN c
  ELSE IF lo = hi THEN CrcByte(c, buf[lo])
  ELSE LET mid == (lo + hi) \div 2
           left == crc_update(c, buf, lo, mid)
       IN IF Len(left) = 2 THEN crc_update(left, buf, mid + 1, hi) ELSE left

\* Crc::<u32>::checksum
checksum(buf) == u32_xor(crc_update(CRC_INIT, buf, 1, Len(buf)), CRC_XOROUT)

(***************************************************************************)
(* chunk.rs                                                                *)
(***************************************************************************)
\* a slip that leaves out the final complement
calculate_crc_no_xorout(chunk, data) ==
  to_be_bytes(crc_update(CRC_INIT, chunk \o data, 1, Len(chunk \o data)))

\* Chunk::calculate_crc
calculate_crc(chunk, data) == to_be_bytes(checksum(chunk \o data))

\* a slip that rejects a ChunkType for which is_valid() is false
Chunk_new_checked(chunk_type, data) ==
  IF is_valid(chunk_type)
    THEN Some([data_length |-> to_be_bytes(as_u32(Len(data))),
               chunk_type |-> chunk_type,
               data |-> data,
               crc |-> calculate_crc(bytes(chunk_type), data)])
    ELSE None

\* Chunk::new; the result is always Some: the constructor cannot fail
Chunk_new(chunk_type, data) ==
  LET data_length == as_u32(Len(data))
      crc == calculate_crc(bytes(chunk_type), data)
  IN Some([data_length |-> to_be_bytes(data_length),
           chunk_type |-> chunk_type,
           data |-> data,
           crc |-> crc])

\* Chunk::crc
Chunk_crc(self) == from_be_bytes(self.crc)

\* Chunk::length
Chunk_length(self) == as_u32(Len(self.data))

\* Chunk::data_as_string: [ok, text]
data_as_string(self) == from_utf8(self.data)

\* a slip that writes the length field little-endian
as_bytes_le(self) ==
  <<self.data_length[4], self.data_length[3],
    self.data_length[2], self.data_length[1]>>
    \o bytes(self.chunk_type) \o self.data \o self.crc

\* Chunk::as_bytes
as_bytes(self) ==
  self.data_length \o bytes(self.chunk_type) \o self.data \o self.crc

\* BufReader<&[u8]>::read_exact from position pos: the n bytes read and the
\* new position, or UnexpectedEof (the reader is then drained)
read_exact(value, pos, n) ==
  IF u32_fits(n, Len(value) - pos)
    THEN [ok |-> TRUE,
          buf |-> SubSeq(value, pos + 1, pos + as_usize(n)),
          pos |-> pos + as_usize(n)]
    ELSE [ok |-> FALSE, buf |-> <<>>, pos |-> Len(value)]

\* Read::read into a zeroed four-byte array: a short read is no error, the
\* bytes that are missing stay zero (used by a slip of Chunk_try_from only)
read4(value, pos) ==
  LET have == IF Len(value) - pos < 4 THEN Len(value) - pos ELSE 4
  IN [ok |-> TRUE,
      buf |-> [i \in 1..4 |-> IF i <= have THEN value[pos + i] ELSE 0],
      pos |-> pos + have]

Parsed(kind, chunk, pos) == [kind |-> kind, chunk |-> chunk, pos |-> pos]

\* a slip that does not compare the stored CRC with the recomputed one
Chunk_try_from_no_crc(value) ==
  LET r1 == read_exact(value, 0, as_u32(4))
  IN IF ~r1.ok THEN Parsed("UnexpectedEof", None, r1.pos)
     ELSE
       LET data_length == from_be_bytes(r1.buf)
           r2 == read_exact(value, r1.pos, as_u32(4))
       IN IF ~r2.ok THEN Parsed("UnexpectedEof", None, r2.pos)
          ELSE
            LET chunk_type ==
                  ChunkType_new(r2.buf[1], r2.buf[2], r2.buf[3], r2.buf[4])
            IN IF ~is_valid(chunk_type)
                 THEN Parsed("Not a valid chunk", None, r2.pos)
                 ELSE
                   LET r3 == read_exact(value, r2.pos, data_length)
                   IN IF ~r3.ok THEN Parsed("UnexpectedEof", None, r3.pos)
                      ELSE
                        LET data == r3.buf
                            r4 == read_exact(value, r3.pos, as_u32(4))
                            crc == r4.buf
                        IN IF ~r4.ok
                             THEN Parsed("UnexpectedEof", None, r4.pos)
                           ELSE Parsed("Ok",
                                  Some([data_length |-> to_be_bytes(data_length),
                                        chunk_type |-> chunk_type,
                                        data |-> data,
                                        crc |-> crc]),
                                  r4.pos)

\* a slip that reads the CRC trailer with read instead of read_exact
Chunk_try_from_short_crc(value) ==
  LET r1 == read_exact(value, 0, as_u32(4))
  IN IF ~r1.ok THEN Parsed("UnexpectedEof", None, r1.pos)
     ELSE
       LET data_length == from_be_bytes(r1.buf)
           r2 == read_exact(value, r1.pos, as_u32(4))
       IN IF ~r2.ok THEN Parsed("UnexpectedEof", None, r2.pos)
          ELSE
            LET chunk_type ==
                  ChunkType_new(r2.buf[1], r2.buf[2], r2.buf[3], r2.buf[4])
            IN IF ~is_valid(chunk_type)
                 THEN Parsed("Not a valid chunk", None, r2.pos)
                 ELSE
                   LET r3 == read_exact(value, r2.pos, data_length)
                   IN IF ~r3.ok THEN Parsed("UnexpectedEof", None, r3.pos)
                      ELSE
                        LET data == r3.buf
                            r4 == read4(value, r3.pos)
                            crc == r4.buf
                        IN IF ~r4.ok
                             THEN Parsed("UnexpectedEof", None, r4.pos)
                           ELSE IF crc # calculate_crc(bytes(chunk_type), data)
                             THEN Parsed("Not a valid crc", None, r4.pos)
                           ELSE Parsed("Ok",
                                  Some([data_length |-> to_be_bytes(data_length),
                                        chunk_type |-> chunk_type,
                                        data |-> data,
                                        crc |-> crc]),
                                  r4.pos)

\* a slip that insists on the buffer ending with the record
Chunk_try_from_strict_end(value) ==
  LET r1 == read_exact(value, 0, as_u32(4))
  IN IF ~r1.ok THEN Parsed("UnexpectedEof", None, r1.pos)
     ELSE
       LET data_length == from_be_bytes(r1.buf)
           r2 == read_exact(value, r1.pos, as_u32(4))
       IN IF ~r2.ok THEN Parsed("UnexpectedEof", None, r2.pos)
          ELSE
            LET chunk_type ==
                  ChunkType_new(r2.buf[1], r2.buf[2], r2.buf[3], r2.buf[4])
            IN IF ~is_valid(chunk_type)
                 THEN Parsed("Not a valid chunk", None, r2.pos)
                 ELSE
                   LET r3 == read_exact(value, r2.pos, data_length)
                   IN IF ~r3.ok THEN Parsed("UnexpectedEof", None, r3.pos)
                      ELSE
                        LET data == r3.buf
                            r4 == read_exact(value, r3.pos, as_u32(4))
                            crc == r4.buf
                        IN IF ~r4.ok
                             THEN Parsed("UnexpectedEof", None, r4.pos)
                           ELSE IF crc # calculate_crc(bytes(chunk_type), data)
                             THEN Parsed("Not a valid crc", None, r4.pos)
                           ELSE IF r4.pos # Len(value)
                             THEN Parsed("Trailing bytes", None, r4.pos)
                           ELSE Parsed("Ok",
                                  Some([data_length |-> to_be_bytes(data_length),
                                        chunk_type |-> chunk_type,
                                        data |-> data,
                                        crc |-> crc]),
                                  r4.pos)

\* TryFrom<&[u8]> for Chunk: [kind, chunk, pos], kind "Ok" with Some(chunk),
\* or the error with None; pos is how far the reader got
Chunk_try_from(value) ==
  LET r1 == read_exact(value, 0, as_u32(4))
  IN IF ~r1.ok THEN Parsed("UnexpectedEof", None, r1.pos)
     ELSE
       LET data_length == from_be_bytes(r1.buf)
           r2 == read_exact(value, r1.pos, as_u32(4))
       IN IF ~r2.ok THEN Parsed("UnexpectedEof", None, r2.pos)
          ELSE
            LET chunk_type ==
                  ChunkType_new(r2.buf[1], r2.buf[2], r2.buf[3], r2.buf[4])
            IN IF ~is_valid(chunk_type)
                 THEN Parsed("Not a valid chunk", None, r2.pos)
                 ELSE
                   LET r3 == read_exact(value, r2.pos, data_length)
                   IN IF ~r3.ok THEN Parsed("UnexpectedEof", None, r3.pos)
                      ELSE
                        LET data == r3.buf
                            r4 == read_exact(value, r3.pos, as_u32(4))
                            crc == r4.buf
                        IN IF ~r4.ok
                             THEN Parsed("UnexpectedEof", None, r4.pos)
                           ELSE IF crc # calculate_crc(bytes(chunk_type), data)
                             THEN Parsed("Not a valid crc", None, r4.pos)
                           ELSE Parsed("Ok",
                                  Some([data_length |-> to_be_bytes(data_length),
                                        chunk_type |-> chunk_type,
                                        data |-> data,
                                        crc |-> crc]),
                                  r4.pos)

\* Display for Chunk: data_as_string().unwrap() panics on Err
Chunk_fmt(self) ==
  LET s == data_as_string(self)
  IN IF ~s.ok
       THEN [panic |-> TRUE, length |-> <<0, 0>>, type |-> <<>>,
             data |-> <<>>, crc |-> <<0, 0>>]
       ELSE [panic |-> FALSE,
             length |-> from_be_bytes(self.data_length),
             type |-> ChunkType_to_string(self.chunk_type),
             data |-> s.text,
             crc |-> Chunk_crc(self)]

(***************************************************************************)
(* The caller: it obtains a ChunkType, compares it or builds a Chunk from  *)
(* it, serializes the Chunk, hands the bytes (possibly cut, altered or     *)
(* followed by more bytes) to the parser, and may display a Chunk.         *)
(***************************************************************************)
VARIABLES
  pc,      \* the operation performed last
  arg,     \* the bytes or text given to the ChunkType constructor
  ct,      \* Option<ChunkType>: the ChunkType the caller holds
  err,     \* the error of the ChunkType constructor, "" when none
  cmp,     \* Option<[other, equal]>: the last comparison and its result
  chunk,   \* Option<Chunk>: the Chunk built by Chunk::new
  buf,     \* the byte buffer the caller holds
  edit,    \* what the caller did to the buffer after as_bytes
  parsed,  \* the result of Chunk::try_from(buf)
  shown    \* Option<the result of format!("{}", chunk)>

vars == <<pc, arg, ct, err, cmp, chunk, buf, edit, parsed, shown>>

NoEdit == [kind |-> "none", at |-> 0]
NotParsed == Parsed("none", None, 0)
TypeOps == {"ChunkType::new", "ChunkType::try_from", "ChunkType::from_str"}

Init ==
  /\ pc = "start"
  /\ arg = <<>>
  /\ ct = None
  /\ err = ""
  /\ cmp = None
  /\ chunk = None
  /\ buf = <<>>
  /\ edit = NoEdit
  /\ parsed = NotParsed
  /\ shown = None

\* ChunkType::new(b[0], b[1], b[2], b[3])
NewType ==
  /\ pc = "start"
  /\ \E b \in Tags :
       /\ arg' = b
       /\ ct' = Some(ChunkType_new(b[1], b[2], b[3], b[4]))
  /\ err' = ""
  /\ pc' = "ChunkType::new"
  /\ UNCHANGED <<cmp, chunk, buf, edit, parsed, shown>>

\* ChunkType::try_from(b)
TryFromType ==
  /\ pc = "start"
  /\ \E b \in Tags :
       LET r == ChunkType_try_from(b)
       IN /\ arg' = b
          /\ ct' = r.val
          /\ err' = r.err
  /\ pc' = "ChunkType::try_from"
  /\ UNCHANGED <<cmp, chunk, buf, edit, parsed, shown>>

\* ChunkType::from_str(s)
FromStrType ==
  /\ pc = "start"
  /\ \E s \in Strings :
       LET r == ChunkType_from_str(s)
       IN /\ arg' = s
          /\ ct' = r.val
          /\ err' = r.err
  /\ pc' = "ChunkType::from_str"
  /\ UNCHANGED <<cmp, chunk, buf, edit, parsed, shown>>

\* ct == other, for any other ChunkType
EqType ==
  /\ pc \in TypeOps
  /\ ct # None
  /\ \E b \in Tags :
       LET other == ChunkType_new(b[1], b[2], b[3], b[4])
       IN cmp' = Some([other |-> other, equal |-> ChunkType_eq(ct[1], other)])
  /\ pc' = "ChunkType::eq"
  /\ UNCHANGED <<arg, ct, err, chunk, buf, edit, parsed, shown>>

\* Chunk::new(ct, p): the ChunkType is moved into the Chunk
NewChunk ==
  /\ pc \in TypeOps
  /\ ct # None
  /\ \E p \in Payloads : chunk' = Chunk_new(ct[1], p)
  /\ ct' = None
  /\ pc' = "Chunk::new"
  /\ UNCHANGED <<arg, err, cmp, buf, edit, parsed, shown>>

\* chunk.as_bytes()
Serialize ==
  /\ pc = "Chunk::new"
  /\ chunk # None
  /\ buf' = as_bytes(chunk[1])
  /\ pc' = "Chunk::as_bytes"
  /\ UNCHANGED <<arg, ct, err, cmp, chunk, edit, parsed, shown>>

\* the caller keeps only the first k bytes of the buffer
Truncate ==
  /\ pc = "Chunk::as_bytes"
  /\ \E k \in 0..(Len(buf) - 1) :
       /\ buf' = SubSeq(buf, 1, k)
       /\ edit' = [kind |-> "truncate", at |-> k]
  /\ pc' = "edit"
  /\ UNCHANGED <<arg, ct, err, cmp, chunk, parsed, shown>>

\* the caller changes one byte of the buffer
SetByte ==
  /\ pc = "Chunk::as_bytes"
  /\ \E i \in 1..Len(buf), v \in EditBytes :
       /\ v # buf[i]
       /\ buf' = [buf EXCEPT ![i] = v]
       /\ edit' = [kind |-> "set", at |-> i]
  /\ pc' = "edit"
  /\ UNCHANGED <<arg, ct, err, cmp, chunk, parsed, shown>>

\* the caller's buffer goes on after the record
AppendTrail ==
  /\ pc = "Chunk::as_bytes"
  /\ \E s \in Trails :
       /\ buf' = buf \o s
       /\ edit' = [kind |-> "append", at |-> Len(s)]
  /\ pc' = "edit"
  /\ UNCHANGED <<arg, ct, err, cmp, chunk, parsed, shown>>

\* Chunk::try_from(buf)
Parse ==
  /\ pc \in {"Chunk::as_bytes", "edit"}
  /\ parsed' = Chunk_try_from(buf)
  /\ pc' = "Chunk::try_from"
  /\ UNCHANGED <<arg, ct, err, cmp, chunk, buf, edit, shown>>

\* format!("{}", chunk), of the Chunk just built
ShowBuilt ==
  /\ pc = "Chunk::new"
  /\ chunk # None
  /\ shown' = Some(Chunk_fmt(chunk[1]))
  /\ pc' = "Chunk::fmt"
  /\ UNCHANGED <<arg, ct, err, cmp, chunk, buf, edit, parsed>>

\* format!("{}", chunk), of the Chunk just parsed
ShowParsed ==
  /\ pc = "Chunk::try_from"
  /\ parsed.kind = "Ok"
  /\ shown' = Some(Chunk_fmt(parsed.chunk[1]))
  /\ pc' = "Chunk::fmt"
  /\ UNCHANGED <<arg, ct, err, cmp, chunk, buf, edit, parsed>>

Next ==
  \/ NewType
  \/ TryFromType
  \/ FromStrType
  \/ EqType
  \/ NewChunk
  \/ Serialize
  \/ Truncate
  \/ SetByte
  \/ AppendTrail
  \/ Parse
  \/ ShowBuilt
  \/ ShowParsed

Spec == Init /\ [][Next]_vars

(***************************************************************************)
(* Properties.                                                             *)
(***************************************************************************)
\* the validity rule of a tag, on its four bytes: all ASCII letters, the third
\* an uppercase one
ValidTag(b) ==
  /\ \A i \in 1..4 : (b[i] >= 65 /\ b[i] <= 90) \/ (b[i] >= 97 /\ b[i] <= 122)
  /\ b[3] >= 65 /\ b[3] <= 90

\* the caller parsed the serialization of `chunk` as as_bytes returned it
ParsedUnedited == pc = "Chunk::try_from" /\ edit = NoEdit

\* the length the first four bytes of the buffer declare
Declared(b) == from_be_bytes(SubSeq(b, 1, 4))

\* the buffer holds the whole record its first four bytes declare
WholeRecord(b) == Len(b) >= 4 /\ u32_fits(Declared(b), Len(b) - 12)

\* C1: round trip.  For every valid ChunkType t and every payload p,
\* Chunk::try_from(Chunk::new(t, p).as_bytes()) succeeds and the parsed Chunk
\* has the type bytes, the payload and the crc() of Chunk::new(t, p).
C1_RoundTrip ==
  (ParsedUnedited /\ ValidTag(bytes(chunk[1].chunk_type)))
    => /\ parsed.kind = "Ok"
       /\ parsed.chunk # None
       /\ bytes(parsed.chunk[1].chunk_type) = bytes(chunk[1].chunk_type)
       /\ parsed.chunk[1].data = chunk[1].data
       /\ Chunk_crc(parsed.chunk[1]) = Chunk_crc(chunk[1])

\* a valid tag and a non-empty payload went through as_bytes and try_from
C1_Witness ==
  /\ ParsedUnedited
  /\ ValidTag(bytes(chunk[1].chunk_type))
  /\ Len(chunk[1].data) = MaxLen
  /\ parsed.kind = "Ok"

\* the CRC-32 of the type bytes followed by the payload bytes
CrcOf(c) == checksum(bytes(c.chunk_type) \o c.data)

\* the CRC field of a whole record differs from the CRC of its type and payload
StoredCrcDiffers(b) ==
  LET n == as_usize(Declared(b))
  IN from_be_bytes(SubSeq(b, 9 + n, 12 + n)) # checksum(SubSeq(b, 5, 8 + n))

\* C2: CRC invariant.  Every Chunk, built by Chunk::new or returned by
\* Chunk::try_from, has crc() = CRC32(type bytes, then payload bytes); and
\* Chunk::try_from of a buffer whose stored CRC field differs from the
\* recomputed CRC returns an error and no Chunk.
C2_CrcInvariant ==
  /\ chunk # None => Chunk_crc(chunk[1]) = CrcOf(chunk[1])
  /\ parsed.chunk # None => Chunk_crc(parsed.chunk[1]) = CrcOf(parsed.chunk[1])
  /\ (pc = "Chunk::try_from" /\ WholeRecord(buf) /\ StoredCrcDiffers(buf))
       => /\ parsed.chunk = None
          /\ parsed.kind \in {"Not a valid crc", "Not a valid chunk"}
          /\ ValidTag(SubSeq(buf, 5, 8)) => parsed.kind = "Not a valid crc"

\* one byte of the CRC field of a valid serialization was changed, and the
\* buffer was parsed
C2_Witness ==
  /\ pc = "Chunk::try_from"
  /\ edit.kind = "set"
  /\ edit.at > 8 + Len(chunk[1].data)
  /\ ValidTag(bytes(chunk[1].chunk_type))
  /\ parsed.kind = "Not a valid crc"

LowerThird(a) == Len(a) = 4 /\ a[3] >= 97 /\ a[3] <= 122
FourLetters(a) ==
  /\ Len(a) = 4
  /\ \A i \in 1..4 : (a[i] >= 65 /\ a[i] <= 90) \/ (a[i] >= 97 /\ a[i] <= 122)

\* C3 as stated: a tag whose third character is lowercase is rejected by both
\* ChunkType::try_from([u8; 4]) and ChunkType::from_str.
C3_Original ==
  (pc \in {"ChunkType::try_from", "ChunkType::from_str"} /\ LowerThird(arg))
    => ct = None

\* C3, amended: a tag whose third character is lowercase is always rejected by
\* ChunkType::try_from([u8; 4]); ChunkType::from_str has no reserved-bit rule:
\* it accepts exactly the texts of four ASCII letters, and for one with a
\* lowercase third character returns a ChunkType with those bytes for which
\* is_valid() is false.
C3_ReservedBit ==
  /\ (pc = "ChunkType::try_from" /\ LowerThird(arg))
       => ct = None /\ err # ""
  /\ pc = "ChunkType::from_str"
       => /\ ct # None <=> FourLetters(arg)
          /\ (ct # None /\ LowerThird(arg))
               => bytes(ct[1]) = arg /\ ~is_valid(ct[1])

\* from_str was given four letters, the third lowercase, and returned a
\* ChunkType
C3_Witness ==
  /\ pc = "ChunkType::from_str"
  /\ LowerThird(arg)
  /\ ct # None

\* C4 as stated: a == b if and only if a.bytes() == b.bytes().
C4_Equality ==
  pc = "ChunkType::eq"
    => (cmp[1].equal <=> bytes(ct[1]) = bytes(cmp[1].other))

\* C5: ChunkType::try_from(b) succeeds if and only if
\* ChunkType::new(b0, b1, b2, b3).is_valid() (all four bytes ASCII letters,
\* the third uppercase); on success bytes() is b, so no ChunkType obtained
\* from try_from is invalid.
C5_ValidityGate ==
  pc = "ChunkType::try_from"
    => /\ ct # None <=> is_valid(ChunkType_new(arg[1], arg[2], arg[3], arg[4]))
       /\ ct # None <=> ValidTag(arg)
       /\ ct # None => bytes(ct[1]) = arg /\ is_valid(ct[1])
       /\ ct = None => err # ""

\* try_from accepted a tag whose first byte is a lowercase letter
C5_Witness ==
  /\ pc = "ChunkType::try_from"
  /\ ct # None
  /\ arg[1] >= 97

\* C6: truncation.  For every buffer shorter than 4+4+L+4 bytes for the length
\* L its first four bytes declare (or shorter than 4 bytes), whose tag, when
\* all of it is there, is valid, Chunk::try_from returns the short-read error,
\* reads nothing past the end of the buffer and returns no Chunk.
C6_Truncation ==
  (/\ pc = "Chunk::try_from"
   /\ ~WholeRecord(buf)
   /\ Len(buf) >= 8 => ValidTag(SubSeq(buf, 5, 8)))
    => /\ parsed.kind = "UnexpectedEof"
       /\ parsed.chunk = None
       /\ parsed.pos <= Len(buf)

\* a serialization with a valid tag was cut inside its CRC field and parsed
C6_Witness ==
  /\ pc = "Chunk::try_from"
  /\ edit.kind = "truncate"
  /\ edit.at > 8 + Len(chunk[1].data)
  /\ ValidTag(bytes(chunk[1].chunk_type))
  /\ parsed.kind = "UnexpectedEof"

\* the Chunk built from ChunkType::from_str("RuSt") and the message
Scenario ==
  /\ chunk # None
  /\ Some(chunk[1].chunk_type) = ChunkType_from_str(RuSt).val
  /\ chunk[1].data = Message

\* what C7 says of a Chunk c, with n for its length; the crc 2882656334 is
\* 43985 * 65536 + 55374
ScenarioHolds(c, n) ==
  /\ Chunk_length(c) = as_u32(n)
  /\ Chunk_crc(c) = <<43985, 55374>>
  /\ data_as_string(c) = [ok |-> TRUE, text |-> Message]

\* C7 as stated: for "RuSt" and the message, the Chunk built by Chunk::new and
\* the one parsed from its serialization have length() == 44,
\* crc() == 2882656334 and data_as_string() the message.
C7_Original ==
  /\ Scenario => ScenarioHolds(chunk[1], 44)
  /\ (Scenario /\ ParsedUnedited)
       => parsed.chunk # None /\ ScenarioHolds(parsed.chunk[1], 44)

\* C7, amended: the same with length() == 42, the length of the message.
C7_Scenario ==
  /\ Scenario => ScenarioHolds(chunk[1], 42)
  /\ (Scenario /\ ParsedUnedited)
       => parsed.chunk # None /\ ScenarioHolds(parsed.chunk[1], 42)

\* the scenario's Chunk was built, serialized and parsed
C7_Witness == Scenario /\ ParsedUnedited /\ parsed.kind = "Ok"

\* C8 as stated: formatting a Chunk with Display never panics, whatever the
\* payload.
C8_DisplayTotal == pc = "Chunk::fmt" => ~shown[1].panic

\* C9: trailing bytes are ignored.  When the first 4+4+L+4 bytes of the buffer
\* parse, the buffer parses to the same Chunk (length, type, payload, crc) and
\* the reader stops after those bytes.
C9_TrailingIgnored ==
  (pc = "Chunk::try_from" /\ WholeRecord(buf))
    => LET r == SubSeq(buf, 1, 12 + as_usize(Declared(buf)))
           p == Chunk_try_from(r)
       IN p.kind = "Ok"
            => /\ parsed.kind = "Ok"
               /\ parsed.chunk # None
               /\ Chunk_length(parsed.chunk[1]) = Chunk_length(p.chunk[1])
               /\ parsed.chunk[1].data_length = p.chunk[1].data_length
               /\ parsed.chunk[1].chunk_type = p.chunk[1].chunk_type
               /\ parsed.chunk[1].data = p.chunk[1].data
               /\ Chunk_crc(parsed.chunk[1]) = Chunk_crc(p.chunk[1])
               /\ parsed.pos = Len(r)

\* a record followed by MaxTrail more bytes was parsed
C9_Witness ==
  /\ pc = "Chunk::try_from"
  /\ edit = [kind |-> "append", at |-> MaxTrail]
  /\ parsed.kind = "Ok"
  /\ parsed.pos < Len(buf)

\* C10: Chunk::new never rejects its ChunkType: it yields a Chunk for every
\* ChunkType and payload, and Chunk::try_from of that Chunk's as_bytes()
\* succeeds if and only if the ChunkType is valid; the serialization of a
\* Chunk with an invalid tag is rejected.
C10_NewUnchecked ==
  /\ pc = "Chunk::new" => chunk # None
  /\ ParsedUnedited
       => /\ parsed.kind = "Ok" <=> is_valid(chunk[1].chunk_type)
          /\ parsed.kind = "Ok" <=> ValidTag(bytes(chunk[1].chunk_type))
          /\ parsed.kind # "Ok"
               => parsed.kind = "Not a valid chunk" /\ parsed.chunk = None

\* a Chunk whose tag is four letters with a lowercase third one was built,
\* serialized and rejected by the parser
C10_Witness ==
  /\ ParsedUnedited
  /\ FourLetters(bytes(chunk[1].chunk_type))
  /\ ~is_valid(chunk[1].chunk_type)
  /\ parsed.kind = "Not a valid chunk"
====
